---- MODULE Spec2Model ----
(***************************************************************************)
(* Model of espn.py: the Qbr class that loads ESPN QBR tables.             *)
(*                                                                         *)
(* A caller constructs a Qbr object from (years, weeks, season_type,       *)
(* stat_type) and calls load_qbr on it.  load_qbr normalizes the request   *)
(* fields in place and dispatches to the weekly or the season-leaders      *)
(* loop; each loop fetches one page per iteration through pd.read_html.    *)
(* One action models the constructor, one the head of load_qbr             *)
(* (normalization and dispatch), and one each iteration of a fetch loop;   *)
(* the action that leaves a loop also carries the rest of the function     *)
(* (handlers, final concat, return).                                       *)
(***************************************************************************)
EXTENDS Integers, Sequences, FiniteSets, TLC

VARIABLES
    pc,       \* where the program is: constructed, weekly, leaders, returned, raised
    args,     \* the arguments the caller passed to Qbr(...)
    self,     \* the Qbr object's fields: years, weeks, season_type, stat_type
    ncalls,   \* load_qbr calls issued so far by the caller
    pos,      \* <<si, yi, wi>>: indices of the running nested for loops
    df,       \* the local list df of per-page tables
    ret,      \* value returned by the current/last load_qbr call
    exc,      \* exception that left the current/last load_qbr call ("none" if none)
    out,      \* diagnostics printed during the current/last call
    fetched,  \* urls handed to pd.read_html during the current/last call
    pages,    \* the web site: outcome of pd.read_html for every url visited so far
    prev      \* the caller's saved outcome of its previous load_qbr call

vars == <<pc, args, self, ncalls, pos, df, ret, exc, out, fetched, pages, prev>>

\* ------------------------------------------------------------------ bounds
MaxLen == 2      \* longest years / weeks list the caller passes
MaxRows == 2     \* a page's table has 0..MaxRows rows
MaxCalls == 2    \* load_qbr calls the caller issues

\* ------------------------------------------------------------ Python values
\* A Python value: t is its type, v its number (int, bool, and the digits of a
\* str or float), elems its elements when it is a list.
PyInt(n) == [t |-> "int", v |-> n, elems |-> <<>>]
PyBool(n) == [t |-> "bool", v |-> n, elems |-> <<>>]
PyStr(n) == [t |-> "str", v |-> n, elems |-> <<>>]
PyFloat(n) == [t |-> "float", v |-> n, elems |-> <<>>]
PyNone == [t |-> "NoneType", v |-> 0, elems |-> <<>>]
PyList(es) == [t |-> "list", v |-> 0, elems |-> es]

\* isinstance(x, int): bool is a subclass of int
IsInstanceInt(x) == x.t \in {"int", "bool"}

IsInstanceList(x) == x.t = "list"

\* ------------------------------------------------------------------ strings
\* A Python str is a sequence of one-character strings.
UpperCase == <<"A","B","C","D","E","F","G","H","I","J","K","L","M",
               "N","O","P","Q","R","S","T","U","V","W","X","Y","Z">>
LowerCase == <<"a","b","c","d","e","f","g","h","i","j","k","l","m",
               "n","o","p","q","r","s","t","u","v","w","x","y","z">>
Whitespace == {" ", "\t", "\n", "\r"}

LowerChar(c) ==
    IF \E i \in 1..Len(UpperCase) : UpperCase[i] = c
    THEN LowerCase[CHOOSE i \in 1..Len(UpperCase) : UpperCase[i] = c]
    ELSE c

\* str.lower()
StrLower(s) == [i \in 1..Len(s) |-> LowerChar(s[i])]

RECURSIVE LStrip(_)
LStrip(s) == IF s # <<>> /\ Head(s) \in Whitespace THEN LStrip(Tail(s)) ELSE s

RECURSIVE RStrip(_)
RStrip(s) ==
    IF s # <<>> /\ s[Len(s)] \in Whitespace THEN RStrip(SubSeq(s, 1, Len(s) - 1)) ELSE s

\* str.strip()
StrStripMutant(s) == LStrip(s)
StrStrip(s) == RStrip(LStrip(s))

REGULAR == <<"r","e","g","u","l","a","r">>
POSTSEASON == <<"p","o","s","t","s","e","a","s","o","n">>
ALL == <<"a","l","l">>
WEEKLY == <<"w","e","e","k","l","y">>
LEADERS == <<"l","e","a","d","e","r","s">>

\* The season_type field: a str before load_qbr, a list of codes or None after.
SeasonStr(s) == [t |-> "str", s |-> s, codes |-> <<>>]
SeasonList(cs) == [t |-> "list", s |-> <<>>, codes |-> cs]
SeasonNone == [t |-> "NoneType", s |-> <<>>, codes |-> <<>>]

\* ----------------------------------------------------------- diagnostics
MsgStatType == "Please enter an appropriate choice for stat types: weekly or leaders."
MsgSeason == "Please enter either: 'regular', 'postseason', or 'all'."
MsgNoWeek4 ==
    "No data to output. Check variables entered. Note: there is no 'Week 4' webpage for postseason stats. It is skipped, with Week 3 as Conference Championships, and Week 5 as the Super Bowl."
MsgParams == "Please enter valid parameters."
MsgNoData == "No data to output."
MsgNoTables == "No tables found."

\* ------------------------------------------------------ parameter normalizer
\* convert_season_identifiers: reads self.season_type, not its argument;
\* the else branch returns what print returns, None, after printing.
convert_season_identifiers(field) ==
    IF field = SeasonStr(REGULAR) THEN [val |-> SeasonList(<<2>>), msgs |-> <<>>]
    ELSE IF field = SeasonStr(POSTSEASON) THEN [val |-> SeasonList(<<3>>), msgs |-> <<>>]
    ELSE IF field = SeasonStr(ALL) THEN [val |-> SeasonList(<<2, 3>>), msgs |-> <<>>]
    ELSE [val |-> SeasonNone, msgs |-> <<MsgSeason>>]

\* convert_to_list
ConvertToListMutant(x) ==
    IF IsInstanceInt(x) THEN PyList(<<x>>)
    ELSE IF IsInstanceList(x)
         THEN PyList(SelectSeq(x.elems, IsInstanceInt))
         ELSE PyNone
convert_to_list(x) ==
    IF IsInstanceInt(x) THEN PyList(<<x>>)
    ELSE IF IsInstanceList(x)
         THEN IF \E i \in 1..Len(x.elems) : ~IsInstanceInt(x.elems[i])
              THEN PyNone
              ELSE PyList(x.elems)
         ELSE PyNone


\* ------------------------------------------------------- what a caller passes
YearInts == {2019, 2020}
WeekInts == {1, 4}

\* elements of a list argument: the integers and one non-integer
ElemInputs(ints) == {PyInt(n) : n \in ints} \cup {PyStr(CHOOSE n \in ints : TRUE)}
ListInputs(ints) ==
    {PyList(es) : es \in UNION {[1..n -> ElemInputs(ints)] : n \in 0..MaxLen}}
IntListInputs(ints) ==
    {PyList(es) : es \in UNION {[1..n -> {PyInt(i) : i \in ints}] : n \in 0..MaxLen}}
ScalarInputs(ints) ==
    {PyInt(n) : n \in ints} \cup
    {PyBool(1), PyStr(CHOOSE n \in ints : TRUE), PyFloat(CHOOSE n \in ints : TRUE), PyNone}
\* years: every scalar and every list; weeks: every scalar, every list of
\* integers, and the lists with a non-integer in one place
YearInputs == ScalarInputs(YearInts) \cup ListInputs(YearInts)
WeekInputs ==
    ScalarInputs(WeekInts) \cup IntListInputs(WeekInts) \cup
    {PyList(<<PyStr(1)>>), PyList(<<PyInt(1), PyFloat(4)>>)}

SeasonInputs ==
    { REGULAR,
      <<" ","R","e","g","u","l","a","r","\n">>,
      POSTSEASON,
      <<"\t","P","O","S","T","S","E","A","S","O","N">>,
      ALL,
      <<"A","l","l"," "," ">>,
      <<"b","o","t","h">>,
      <<"a"," ","l","l">> }
StatInputs ==
    { WEEKLY,
      <<" ","W","e","e","k","l","y">>,
      LEADERS,
      <<"L","E","A","D","E","R","S","\n">>,
      <<"s","e","a","s","o","n">> }

\* ------------------------------------------------------------- the web site
\* pd.read_html(url) either returns the page's tables or raises: ValueError
\* when the page holds no tables, ImportError when no html parser is there.
FetchOutcomes == {"ok", "ValueError", "ImportError"}

WeeklyUrl(year, season_id, week) ==
    [view |-> "weekly", season |-> year, seasontype |-> season_id, week |-> week]
LeadersUrl(year, season_id) ==
    [view |-> "leaders", season |-> year, seasontype |-> season_id, week |-> PyNone]

\* The published table of a page, its tables already joined side by side
\* (pd.concat(dfs, axis=1)): row n of page url, indexed 0.. as pandas does.
NumRows(url) == (url.season.v + url.seasontype + url.week.v) % (MaxRows + 1)
PageTable(url) == [n \in 1..NumRows(url) |-> [index |-> n - 1, page |-> url, n |-> n]]

\* outcomes pd.read_html may have for url: pages are stable once seen
Outcomes(url) == IF url \in DOMAIN pages THEN {pages[url]} ELSE FetchOutcomes

\* ------------------------------------------------------------------ tables
NoRet == [kind |-> "none", rows |-> <<>>]
EmptyList == [kind |-> "list", rows |-> <<>>]
DataFrame(rows) == [kind |-> "DataFrame", rows |-> rows]

RECURSIVE Flatten(_)
Flatten(tables) == IF tables = <<>> THEN <<>> ELSE Head(tables) \o Flatten(Tail(tables))

\* pd.concat(df, ignore_index=True) on a non-empty list of tables
PdConcat(tables) ==
    LET rows == Flatten(tables) IN [i \in 1..Len(rows) |-> [rows[i] EXCEPT !.index = i - 1]]

\* season_type column: 'regular' if x == 2 else 'postseason'
SeasonLabelMutant(season_id) == IF season_id = 3 THEN "regular" ELSE "postseason"
SeasonLabel(season_id) == IF season_id = 2 THEN "regular" ELSE "postseason"

\* stg_df of the weekly loop: the page's rows with year and season_type added
WeeklyStg(url, year, season_id) ==
    [n \in 1..Len(PageTable(url)) |->
        [index |-> PageTable(url)[n].index, page |-> url, n |-> n,
         year |-> year, season_type |-> SeasonLabel(season_id)]]

\* stg_df of the leaders loop: the page's rows with year added
LeadersStg(url, year) ==
    [n \in 1..Len(PageTable(url)) |->
        [index |-> PageTable(url)[n].index, page |-> url, n |-> n, year |-> year]]

\* the tail of both loaders: pd.concat(df, ignore_index=True), and on its
\* ValueError (df is empty) the diagnostic and the empty list
ConcatResult(tables) == IF tables = <<>> THEN EmptyList ELSE DataFrame(PdConcat(tables))
ConcatMsgs(tables) == IF tables = <<>> THEN <<MsgNoData>> ELSE <<>>

\* ----------------------------------------------------------------- __init__
NewQbr(a) ==
    [years |-> a.years,
     weeks |-> a.weeks,
     season_type |-> SeasonStr(StrStrip(StrLower(a.season_type))),
     stat_type |-> StrStrip(StrLower(a.stat_type))]

Requests ==
    [years : YearInputs, weeks : WeekInputs, season_type : SeasonInputs, stat_type : StatInputs]

NoPrev == [has |-> FALSE, ret |-> NoRet, exc |-> "none"]

Init ==
    /\ args \in Requests
    /\ self = NewQbr(args)
    /\ pc = "constructed"
    /\ ncalls = 0
    /\ pos = <<1, 1, 1>>
    /\ df = <<>>
    /\ ret = NoRet
    /\ exc = "none"
    /\ out = <<>>
    /\ fetched = <<>>
    /\ pages = << >>
    /\ prev = NoPrev

\* The caller builds a fresh object from the same arguments, to issue the
\* request again.
Construct ==
    /\ pc \in {"returned", "raised"}
    /\ ncalls < MaxCalls
    /\ self' = NewQbr(args)
    /\ pc' = "constructed"
    /\ UNCHANGED <<args, ncalls, pos, df, ret, exc, out, fetched, pages, prev>>

\* ----------------------------------------------------------------- load_qbr
\* Normalization in place, then the dispatch on stat_type; the else branch
\* prints and then reads the unassigned local final_df.
LoadQbr ==
    /\ pc \in {"constructed", "returned", "raised"}
    /\ ncalls < MaxCalls
    /\ LET season == convert_season_identifiers(self.season_type)
           known == self.stat_type \in {WEEKLY, LEADERS}
       IN /\ self' = [self EXCEPT !.season_type = season.val,
                                  !.years = convert_to_list(self.years),
                                  !.weeks = convert_to_list(self.weeks)]
          /\ out' = season.msgs \o (IF known THEN <<>> ELSE <<MsgStatType>>)
          /\ pc' = IF self.stat_type = WEEKLY THEN "weekly"
                   ELSE IF self.stat_type = LEADERS THEN "leaders"
                   ELSE "raised"
          /\ exc' = IF known THEN "none" ELSE "UnboundLocalError"
    /\ prev' = IF ncalls > 0 THEN [has |-> TRUE, ret |-> ret, exc |-> exc] ELSE prev
    /\ ncalls' = ncalls + 1
    /\ pos' = <<1, 1, 1>>
    /\ df' = <<>>
    /\ ret' = NoRet
    /\ fetched' = <<>>
    /\ UNCHANGED <<args, pages>>


\* --------------------------------------------------------- load_weekly_qbr
\* Where the nested for loops stand: "at" the body with indices p, "done"
\* when the outer loop is exhausted, "TypeError" when a loop head iterates
\* over None.
AtBody(si, yi, wi) == [k |-> "at", p |-> <<si, yi, wi>>]
LoopDone == [k |-> "done", p |-> <<0, 0, 0>>]
LoopTypeError == [k |-> "TypeError", p |-> <<0, 0, 0>>]

RECURSIVE WeeklyCursor(_, _, _)
WeeklyCursor(si, yi, wi) ==
    IF self.season_type.t # "list" THEN LoopTypeError
    ELSE IF si > Len(self.season_type.codes) THEN LoopDone
    ELSE IF self.years.t # "list" THEN LoopTypeError
    ELSE IF yi > Len(self.years.elems) THEN WeeklyCursor(si + 1, 1, 1)
    ELSE IF self.weeks.t # "list" THEN LoopTypeError
    ELSE IF wi > Len(self.weeks.elems) THEN WeeklyCursor(si, yi + 1, 1)
    ELSE AtBody(si, yi, wi)

WeeklyAt == WeeklyCursor(pos[1], pos[2], pos[3])
WeeklySeasonId == self.season_type.codes[WeeklyAt.p[1]]
WeeklyYear == self.years.elems[WeeklyAt.p[2]]
WeeklyWeek == self.weeks.elems[WeeklyAt.p[3]]

\* if season_id == 3 and week == 4
IsSkipped(season_id, week) == season_id = 3 /\ week.v = 4

\* return weekly_df, after the final pd.concat
WeeklyReturn(msgs) ==
    /\ ret' = ConcatResult(df)
    /\ out' = out \o msgs \o ConcatMsgs(df)
    /\ exc' = "none"
    /\ pc' = "returned"

\* a loop head iterates over None: except TypeError, then the final concat
WeeklyTypeError ==
    /\ pc = "weekly"
    /\ WeeklyAt.k = "TypeError"
    /\ WeeklyReturn(<<MsgParams>>)
    /\ UNCHANGED <<args, self, ncalls, pos, df, fetched, pages, prev>>

\* the loops are exhausted: the final concat
WeeklyDone ==
    /\ pc = "weekly"
    /\ WeeklyAt.k = "done"
    /\ WeeklyReturn(<<>>)
    /\ UNCHANGED <<args, self, ncalls, pos, df, fetched, pages, prev>>

\* no postseason week 4, so skip
WeeklySkip ==
    /\ pc = "weekly"
    /\ WeeklyAt.k = "at"
    /\ IsSkipped(WeeklySeasonId, WeeklyWeek)
    /\ pos' = <<WeeklyAt.p[1], WeeklyAt.p[2], WeeklyAt.p[3] + 1>>
    /\ UNCHANGED <<pc, args, self, ncalls, df, ret, exc, out, fetched, pages, prev>>

WeeklyFetches(o) ==
    /\ pc = "weekly"
    /\ WeeklyAt.k = "at"
    /\ ~IsSkipped(WeeklySeasonId, WeeklyWeek)
    /\ o \in Outcomes(WeeklyUrl(WeeklyYear, WeeklySeasonId, WeeklyWeek))
    /\ fetched' = Append(fetched, WeeklyUrl(WeeklyYear, WeeklySeasonId, WeeklyWeek))
    /\ pages' = (WeeklyUrl(WeeklyYear, WeeklySeasonId, WeeklyWeek) :> o) @@ pages

\* the page is read: tag its rows and append them to df
WeeklyFetchOk ==
    /\ WeeklyFetches("ok")
    /\ df' = Append(df, WeeklyStg(WeeklyUrl(WeeklyYear, WeeklySeasonId, WeeklyWeek),
                                  WeeklyYear, WeeklySeasonId))
    /\ pos' = <<WeeklyAt.p[1], WeeklyAt.p[2], WeeklyAt.p[3] + 1>>
    /\ UNCHANGED <<pc, args, self, ncalls, ret, exc, out, prev>>

\* pd.read_html raises ImportError: the handler around the loops, then the
\* final concat
WeeklyFetchImportError ==
    /\ WeeklyFetches("ImportError")
    /\ WeeklyReturn(<<MsgNoWeek4>>)
    /\ UNCHANGED <<args, self, ncalls, pos, df, prev>>

\* pd.read_html raises ValueError (no tables found): no handler around the
\* loops names it, so it leaves load_weekly_qbr and load_qbr
WeeklyFetchValueError ==
    /\ WeeklyFetches("ValueError")
    /\ exc' = "ValueError"
    /\ pc' = "raised"
    /\ UNCHANGED <<args, self, ncalls, pos, df, ret, out, prev>>

\* -------------------------------------------------- load_season_leaders_qbr
RECURSIVE LeadersCursor(_, _)
LeadersCursor(si, yi) ==
    IF self.season_type.t # "list" THEN LoopTypeError
    ELSE IF si > Len(self.season_type.codes) THEN LoopDone
    ELSE IF self.years.t # "list" THEN LoopTypeError
    ELSE IF yi > Len(self.years.elems) THEN LeadersCursor(si + 1, 1)
    ELSE AtBody(si, yi, 1)

LeadersAt == LeadersCursor(pos[1], pos[2])
LeadersSeasonId == self.season_type.codes[LeadersAt.p[1]]
LeadersYear == self.years.elems[LeadersAt.p[2]]

\* return leaders_df, after the final pd.concat
LeadersReturn(msgs) ==
    /\ ret' = ConcatResult(df)
    /\ out' = out \o msgs \o ConcatMsgs(df)
    /\ exc' = "none"
    /\ pc' = "returned"

\* a loop head iterates over None: only ValueError is handled here
LeadersTypeError ==
    /\ pc = "leaders"
    /\ LeadersAt.k = "TypeError"
    /\ exc' = "TypeError"
    /\ pc' = "raised"
    /\ UNCHANGED <<args, self, ncalls, pos, df, ret, out, fetched, pages, prev>>

LeadersDone ==
    /\ pc = "leaders"
    /\ LeadersAt.k = "done"
    /\ LeadersReturn(<<>>)
    /\ UNCHANGED <<args, self, ncalls, pos, df, fetched, pages, prev>>

LeadersFetches(o) ==
    /\ pc = "leaders"
    /\ LeadersAt.k = "at"
    /\ o \in Outcomes(LeadersUrl(LeadersYear, LeadersSeasonId))
    /\ fetched' = Append(fetched, LeadersUrl(LeadersYear, LeadersSeasonId))
    /\ pages' = (LeadersUrl(LeadersYear, LeadersSeasonId) :> o) @@ pages

LeadersFetchOk ==
    /\ LeadersFetches("ok")
    /\ df' = Append(df, LeadersStg(LeadersUrl(LeadersYear, LeadersSeasonId), LeadersYear))
    /\ pos' = <<LeadersAt.p[1], LeadersAt.p[2] + 1, 1>>
    /\ UNCHANGED <<pc, args, self, ncalls, ret, exc, out, prev>>

\* except ValueError around the loops: print, then the final concat of what
\* df already holds
LeadersFetchValueErrorMutant ==
    /\ LeadersFetches("ValueError")
    /\ ret' = EmptyList
    /\ out' = out \o <<MsgNoTables>>
    /\ exc' = "none"
    /\ pc' = "returned"
    /\ UNCHANGED <<args, self, ncalls, pos, df, prev>>
LeadersFetchValueError ==
    /\ LeadersFetches("ValueError")
    /\ LeadersReturn(<<MsgNoTables>>)
    /\ UNCHANGED <<args, self, ncalls, pos, df, prev>>

LeadersFetchImportError ==
    /\ LeadersFetches("ImportError")
    /\ exc' = "ImportError"
    /\ pc' = "raised"
    /\ UNCHANGED <<args, self, ncalls, pos, df, ret, out, prev>>

\* ------------------------------------------------------------ specification
Next ==
    \/ Construct
    \/ LoadQbr
    \/ WeeklyTypeError
    \/ WeeklyDone
    \/ WeeklySkip
    \/ WeeklyFetchOk
    \/ WeeklyFetchImportError
    \/ WeeklyFetchValueError
    \/ LeadersTypeError
    \/ LeadersDone
    \/ LeadersFetchOk
    \/ LeadersFetchValueError
    \/ LeadersFetchImportError

Spec == Init /\ [][Next]_vars


\* ---------------------------------------------------------------------------
\* Properties.  They describe the request as the caller wrote it (args) and
\* the pages as the site serves them, not through the operators above.
\* ---------------------------------------------------------------------------
Finished == pc \in {"returned", "raised"}

\* c is the letter l in either case
CapitalOf ==
    [a |-> "A", b |-> "B", c |-> "C", d |-> "D", e |-> "E", f |-> "F", g |-> "G",
     h |-> "H", i |-> "I", j |-> "J", k |-> "K", l |-> "L", m |-> "M", n |-> "N",
     o |-> "O", p |-> "P", q |-> "Q", r |-> "R", s |-> "S", t |-> "T", u |-> "U",
     v |-> "V", w |-> "W", x |-> "X", y |-> "Y", z |-> "Z"]
SameLetter(c, l) == c = l \/ c = CapitalOf[l]

\* raw is word in some mix of cases, surrounded by any whitespace
Spells(raw, word) ==
    \E i \in 0..Len(raw) :
        /\ i + Len(word) <= Len(raw)
        /\ \A k \in 1..i : raw[k] \in Whitespace
        /\ \A k \in 1..Len(word) : SameLetter(raw[i + k], word[k])
        /\ \A k \in (i + Len(word) + 1)..Len(raw) : raw[k] \in Whitespace

IsInteger(x) == x.t = "int" \/ x.t = "bool"
IsIntegerList(x) == x.t = "list" /\ \A i \in 1..Len(x.elems) : IsInteger(x.elems[i])
Normalizes(x) == IsInteger(x) \/ IsIntegerList(x)

AsksWeekly == Spells(args.stat_type, WEEKLY)
AsksLeaders == Spells(args.stat_type, LEADERS)
SeasonKnown ==
    \/ Spells(args.season_type, REGULAR)
    \/ Spells(args.season_type, POSTSEASON)
    \/ Spells(args.season_type, ALL)

\* the loops' inputs are lists: the request was valid and this is the first
\* load_qbr on the object
LoopInputsValid(needWeeks) ==
    /\ self.season_type.t = "list"
    /\ self.years.t = "list"
    /\ needWeeks => self.weeks.t = "list"

Min(S) == CHOOSE x \in S : \A y \in S : x <= y

\* --- the weekly iteration order in closed form: triple k of
\* --- season codes x years x weeks, season code slowest, week fastest
NumTriples ==
    Len(self.season_type.codes) * Len(self.years.elems) * Len(self.weeks.elems)
TripleAt(k) ==
    LET ny == Len(self.years.elems)
        nw == Len(self.weeks.elems)
    IN [season_id |-> self.season_type.codes[((k - 1) \div (ny * nw)) + 1],
        year |-> self.years.elems[(((k - 1) \div nw) % ny) + 1],
        week |-> self.weeks.elems[((k - 1) % nw) + 1]]
TripleUrl(t) == WeeklyUrl(t.year, t.season_id, t.week)
IsPostseasonWeek4(t) == t.season_id = 3 /\ t.week.v = 4
Triples == [k \in 1..NumTriples |-> TripleAt(k)]
KeptTriples == SelectSeq(Triples, LAMBDA t : ~IsPostseasonWeek4(t))

\* rows a page contributes, without their position in the result
TripleRows(t) ==
    [n \in 1..NumRows(TripleUrl(t)) |->
        [page |-> TripleUrl(t), n |-> n, year |-> t.year,
         season_type |-> IF t.season_id = 2 THEN "regular" ELSE "postseason"]]
ExpectedWeeklyRows == Flatten([k \in 1..Len(KeptTriples) |-> TripleRows(KeptTriples[k])])

\* --- the leaders iteration order in closed form
NumPairs == Len(self.season_type.codes) * Len(self.years.elems)
PairAt(k) ==
    LET ny == Len(self.years.elems)
    IN [season_id |-> self.season_type.codes[((k - 1) \div ny) + 1],
        year |-> self.years.elems[((k - 1) % ny) + 1]]
PairUrl(k) == LeadersUrl(PairAt(k).year, PairAt(k).season_id)
PairRows(k) ==
    [n \in 1..NumRows(PairUrl(k)) |-> [page |-> PairUrl(k), n |-> n, year |-> PairAt(k).year]]
\* pairs whose page has no tables
NoTablePairs ==
    {k \in 1..NumPairs : PairUrl(k) \in DOMAIN pages /\ pages[PairUrl(k)] = "ValueError"}
\* number of pages read before the first page without tables
PagesBeforeFailure == IF NoTablePairs = {} THEN NumPairs ELSE Min(NoTablePairs) - 1
ExpectedLeadersRows == Flatten([k \in 1..PagesBeforeFailure |-> PairRows(k)])

RECURSIVE SumRows(_)
SumRows(k) == IF k = 0 THEN 0 ELSE NumRows(PairUrl(k)) + SumRows(k - 1)

\* Supporting facts, stated for the half of a claim the code does satisfy.
\* The weekly loop never hands the page of (3, year, 4) to pd.read_html.
PostseasonWeek4NeverFetched ==
    \A i \in 1..Len(fetched) :
        ~(fetched[i].view = "weekly" /\ fetched[i].seasontype = 3 /\ fetched[i].week.v = 4)

\* On the weekly path a request that does not normalize is nothing to do.
WeeklyInvalidRequestIsNothingToDo ==
    (/\ Finished
     /\ ncalls = 1
     /\ AsksWeekly
     /\ ~Normalizes(args.years) \/ ~Normalizes(args.weeks) \/ ~SeasonKnown)
    => (fetched = <<>> /\ out # <<>> /\ ret = EmptyList /\ exc = "none")

\* On the leaders path pages without tables give the empty dataset.
LeadersAllPagesEmptyReturnsEmpty ==
    (/\ Finished
     /\ self.stat_type = LEADERS
     /\ LoopInputsValid(FALSE)
     /\ \A i \in 1..Len(fetched) : pages[fetched[i]] = "ValueError")
    => (ret = EmptyList /\ exc = "none")

\* C1: a request whose years or weeks do not normalize, or whose season type
\* is unknown, ends a weekly or leaders load_qbr with no page fetched, a
\* diagnostic printed, the empty dataset returned and no exception.
C1_InvalidRequestIsNothingToDo ==
    (/\ Finished
     /\ ncalls = 1
     /\ AsksWeekly \/ AsksLeaders
     /\ ~Normalizes(args.years) \/ ~Normalizes(args.weeks) \/ ~SeasonKnown)
    => (/\ fetched = <<>>
        /\ out # <<>>
        /\ ret = EmptyList
        /\ exc = "none")

\* C2: a stat category other than weekly and leaders ends load_qbr with a
\* diagnostic, no result table, and no exception reaching the caller.
C2_UnknownStatTypeReturns ==
    (Finished /\ ~AsksWeekly /\ ~AsksLeaders)
    => (/\ \E i \in 1..Len(out) : out[i] = MsgStatType
        /\ ret.kind # "DataFrame"
        /\ exc = "none")

\* C3: with valid parameters, if every page requested has no tables
\* (ValueError), load_qbr returns the empty dataset and raises nothing, for
\* weekly and for leaders.
C3_AllPagesEmptyReturnsEmpty ==
    (/\ Finished
     /\ self.stat_type \in {WEEKLY, LEADERS}
     /\ LoopInputsValid(self.stat_type = WEEKLY)
     /\ \A i \in 1..Len(fetched) : pages[fetched[i]] = "ValueError")
    => (ret = EmptyList /\ exc = "none")

\* C4: in the weekly loop a page that cannot be read does not end the batch:
\* every non-skipped triple is still fetched, the call returns, and the rows
\* of every page that was read are in the result, in order.
C4_WeeklyContinuesAfterFailedPage ==
    (/\ Finished
     /\ self.stat_type = WEEKLY
     /\ LoopInputsValid(TRUE)
     /\ \A i \in 1..Len(fetched) : pages[fetched[i]] # "ImportError")
    => (/\ exc = "none"
        /\ \A k \in 1..Len(KeptTriples) :
              \E i \in 1..Len(fetched) : fetched[i] = TripleUrl(KeptTriples[k])
        /\ LET read == SelectSeq(KeptTriples, LAMBDA t : pages[TripleUrl(t)] = "ok")
               rows == Flatten([k \in 1..Len(read) |-> TripleRows(read[k])])
           IN /\ Len(ret.rows) = Len(rows)
              /\ \A i \in 1..Len(rows) : ret.rows[i].page = rows[i].page
                                         /\ ret.rows[i].n = rows[i].n)

\* C5: the same request issued twice against the same pages gives the same
\* result, whether the second load_qbr runs on the same object or a new one.
C5_SameRequestSameResult ==
    (Finished /\ prev.has) => (ret = prev.ret /\ exc = prev.exc)

\* C6: a weekly call never fetches the page of (3, year, 4), and fetches the
\* page of every other triple it was asked for.
C6_OnlyPostseasonWeek4Skipped ==
    (Finished /\ self.stat_type = WEEKLY /\ LoopInputsValid(TRUE))
    => \A k \in 1..NumTriples :
          (\E i \in 1..Len(fetched) : fetched[i] = TripleUrl(TripleAt(k)))
              <=> ~IsPostseasonWeek4(TripleAt(k))

\* C7: the season type string, lower-cased and trimmed by the constructor and
\* converted by convert_season_identifiers, gives [2] for regular, [3] for
\* postseason, [2,3] for all, and None with a diagnostic for anything else,
\* whatever the other request fields are.
C7_SeasonTypeNormalization ==
    (ncalls = 1 /\ pc # "constructed")
    => LET raw == args.season_type
       IN /\ Spells(raw, REGULAR) => self.season_type = SeasonList(<<2>>)
          /\ Spells(raw, POSTSEASON) => self.season_type = SeasonList(<<3>>)
          /\ Spells(raw, ALL) => self.season_type = SeasonList(<<2, 3>>)
          /\ SeasonKnown => \A i \in 1..Len(out) : out[i] # MsgSeason
          /\ ~SeasonKnown => (self.season_type = SeasonNone /\ out # <<>> /\ out[1] = MsgSeason)

C7_Witness ==
    /\ ncalls = 1
    /\ pc # "constructed"
    /\ args.season_type = <<"A","l","l"," "," ">>
    /\ self.season_type = SeasonList(<<2, 3>>)

\* C8: convert_to_list gives [x] for an integer x, the same elements in the
\* same order for a list of integers, and None for a list with a non-integer
\* anywhere or for any other value; never part of a list.
C8_ConvertToListAllOrNothing ==
    (pc # "constructed")
    => \A f \in {"years", "weeks"} :
          LET raw == args[f]
              got == self[f]
          IN /\ IsInteger(raw) => got = PyList(<<raw>>)
             /\ IsIntegerList(raw) =>
                   /\ got.t = "list"
                   /\ Len(got.elems) = Len(raw.elems)
                   /\ \A i \in 1..Len(raw.elems) : got.elems[i] = raw.elems[i]
             /\ ~Normalizes(raw) => got = PyNone

C8_Witness ==
    /\ pc # "constructed"
    /\ args.years.t = "list"
    /\ Len(args.years.elems) = 2
    /\ IsInteger(args.years.elems[1])
    /\ ~IsInteger(args.years.elems[2])
    /\ self.years = PyNone
    /\ IsIntegerList(args.weeks)
    /\ Len(args.weeks.elems) = 2
    /\ self.weeks = args.weeks

\* C9: a weekly call whose every fetched page is read returns the rows of
\* the pages in the order season code, year, week, indexed 0, 1, 2, ..., each
\* row with its page's year and with season_type regular (code 2) or
\* postseason (code 3).
C9_WeeklyResultIsOrderedConcat ==
    (/\ pc = "returned"
     /\ self.stat_type = WEEKLY
     /\ LoopInputsValid(TRUE)
     /\ \A i \in 1..Len(fetched) : pages[fetched[i]] = "ok")
    => LET rows == ExpectedWeeklyRows
       IN /\ exc = "none"
          /\ Len(ret.rows) = Len(rows)
          /\ \A i \in 1..Len(rows) :
                /\ ret.rows[i] = [index |-> i - 1,
                                  page |-> rows[i].page,
                                  n |-> rows[i].n,
                                  year |-> rows[i].year,
                                  season_type |-> rows[i].season_type]
                /\ ret.rows[i].year = ret.rows[i].page.season
                /\ ret.rows[i].season_type \in {"regular", "postseason"}
                /\ ret.rows[i].season_type = "regular" <=> ret.rows[i].page.seasontype = 2

C9_Witness ==
    /\ pc = "returned"
    /\ self.stat_type = WEEKLY
    /\ LoopInputsValid(TRUE)
    /\ \A i \in 1..Len(fetched) : pages[fetched[i]] = "ok"
    /\ self.season_type.codes = <<2, 3>>
    /\ self.years.elems = <<PyInt(2020), PyInt(2019)>>
    /\ self.weeks.elems = <<PyInt(4), PyInt(1)>>
    /\ Len(fetched) = 6
    /\ Len(ret.rows) >= 3

\* C10: a leaders call with valid season codes and years returns the rows of
\* the pages read before the first page without tables (all pages when there
\* is none), in the order season code, year, each row with its page's year;
\* it fetches nothing after that page and keeps what it had collected.
C10_LeadersResultIsPrefixConcat ==
    (/\ pc = "returned"
     /\ self.stat_type = LEADERS
     /\ LoopInputsValid(FALSE))
    => LET rows == ExpectedLeadersRows
           before == PagesBeforeFailure
       IN /\ exc = "none"
          /\ Len(ret.rows) = SumRows(before)
          /\ Len(ret.rows) = Len(rows)
          /\ \A i \in 1..Len(rows) :
                ret.rows[i] = [index |-> i - 1,
                               page |-> rows[i].page,
                               n |-> rows[i].n,
                               year |-> rows[i].year]
          /\ Len(fetched) = IF before = NumPairs THEN NumPairs ELSE before + 1
          /\ \A i \in 1..Len(fetched) : fetched[i] = PairUrl(i)

C10_Witness ==
    /\ pc = "returned"
    /\ self.stat_type = LEADERS
    /\ LoopInputsValid(FALSE)
    /\ NumPairs = 4
    /\ PagesBeforeFailure = 2
    /\ Len(fetched) = 3
    /\ Len(ret.rows) >= 2

====
